---- MODULE Spec2Model ----
(***************************************************************************)
(* Model of gitbase's repository pool (RepositoryPool, RepositoryIter) and *)
(* of the composite row iterator (rowRepoIter) of repository_pool.go.      *)
(*                                                                         *)
(* The five specifications share the variables:                            *)
(*   SpecPool    the registration and lookup operations of the pool;       *)
(*   SpecImport  the imports from disk next to registration, lookup and a  *)
(*               RepositoryIter, on an empty pool;                         *)
(*   SpecCursor  several RepositoryIter over one populated pool;           *)
(*   Spec        one rowRepoIter over a populated pool, driven by          *)
(*               concurrent callers of Next, one caller of Close and the   *)
(*               cancellation of the query context;                        *)
(*   SpecLive    one caller of Next on a rowRepoIter that skips errors,    *)
(*               scheduled fairly.                                         *)
(***************************************************************************)
EXTENDS Integers, Sequences, FiniteSets, TLC

\* ------------------------------------------------------------------ bounds
MaxRepos == 2        \* repositories in a pool
MaxCalls == 4        \* calls of rowRepoIter.Next started on one iterator

\* ------------------------------------------------- the world outside the pool
\* Repository ids; the empty string is an id like any other for Add.
Ids == {"", "a", "b"}

\* Locations on disk.  What a location holds decides how opening it and
\* iterating it behaves (git.PlainOpen, RowRepoIter.NewIterator/Next).
Paths == {"/ok1", "/ok2", "/noopen", "/nosetup", "/stuck"}

\* git.PlainOpen / git.Open succeed on this location: it holds a repository.
Opens(path) == path \in {"/ok1", "/ok2", "/nosetup", "/stuck"}

\* RowRepoIter.NewIterator succeeds on a repository of this location.
SetupOK(path) == path # "/nosetup"

\* What the sub-iterator of a repository returns, call after call; after
\* the script it returns io.EOF.  "stuck" is an error that every later call
\* returns again.
Script(path) ==
  CASE path = "/ok1"    -> <<"row">>
    [] path = "/ok2"    -> <<"row", "row">>
    [] path = "/stuck"  -> <<"row", "stuck">>
    [] OTHER            -> <<>>

\* gitRepo(id, path)
gitRepo(id, path) == [kind |-> "git", id |-> id, path |-> path]

\* sivaRepo(id, path)
sivaRepo(id, path) == [kind |-> "siva", id |-> id, path |-> path]

Backends == {gitRepo(id, path) : id \in Ids, path \in Paths}

\* ------------------------------------------------------------------ results
Nil == 0
Unlocked == "unlocked"
NoOp == [op |-> "none", id |-> "", path |-> "", pos |-> 0,
         res |-> [t |-> "none", id |-> "", path |-> ""]]
OkRes == [t |-> "nil", id |-> "", path |-> ""]
EOFRes == [t |-> "EOF", id |-> "", path |-> ""]
\* errRepoAlreadyRegistered.New(r.Path())
AlreadyRegistered(path) == [t |-> "AlreadyRegistered", id |-> "", path |-> path]
\* ErrPoolRepoNotFound.New(id)
NotFound(id) == [t |-> "NotFound", id |-> id, path |-> ""]

VARIABLES
  \* RepositoryPool
  repositories,   \* map id -> repository
  idOrder,        \* []string
  lastOp,         \* the last pool operation, its arguments and its result
  regLog,         \* history: the backends registered with success, in order
  opened,         \* history: the locations the last pool operation opened
  \* RepositoryIter
  cursorPos,      \* pos of each RepositoryIter
  cursorPc,       \* where the caller of each RepositoryIter is
  cursorRes,      \* what GetPos gave the Next in progress
  cursorCalls,    \* history: how many Next calls of each RepositoryIter have returned
  \* rowRepoIter
  mu,             \* sync.Mutex: Unlocked or the caller holding it
  currRepoIter,   \* Nil or the index in subs of the active sub-iterator
  pos,            \* RepositoryIter.pos
  skipGitErrors,  \* session.SkipGitErrors
  canceled,       \* ctx.Done() is closed
  subs,           \* the sub-iterators NewIterator has created
  iterClosed,     \* how many times iter.Close() was called
  \* callers of Next
  pc,             \* where each caller of Next is
  repo,           \* local repo of each caller (the position it was pulled from)
  ret,            \* what the last Next of each caller returned
  out,            \* history: everything Next returned, in order
  calls,          \* history: number of Next calls started
  entryCanceled,  \* history: ctx was done when the caller's Next was called
  touched,        \* history: the caller's Next has pulled, set up, read or closed
  itStartCanceled,\* history: ctx was done when the current loop iteration began
  \* the caller of Close
  cpc,            \* where Close is
  closeSeen,      \* the currRepoIter Close's nil check read
  closeRet,       \* what Close returned
  closeHist,      \* history of the Close call
  panicked        \* the process died of a nil dereference

cursorVars == <<cursorPos, cursorPc, cursorRes, cursorCalls>>
poolVars == <<repositories, idOrder, lastOp, regLog, opened, cursorVars>>
iterVars == <<mu, currRepoIter, pos, skipGitErrors, canceled, subs, iterClosed>>
nextVars == <<pc, repo, ret, out, calls, entryCanceled, touched, itStartCanceled>>
closeVars == <<cpc, closeSeen, closeRet, closeHist, panicked>>
vars == <<poolVars, iterVars, nextVars, closeVars>>

Callers == {"n1", "n2"}

\* The RepositoryIter of the model.
Cursors == {"c1", "c2"}

\* ===================================================================== pool

\* NewRepositoryFromPath / NewSivaRepositoryFromPath: a fresh handle, or the
\* error of git.PlainOpen.
NewRepositoryFromPath(id, path) ==
  IF Opens(path) THEN [t |-> "repo", id |-> id, path |-> path]
                 ELSE [t |-> "openerr", id |-> "", path |-> path]

\* A lookup that reports the end of the pool for an id that is not in it.
GetRepoMissingEOF(id) ==
  IF id \notin DOMAIN repositories
    THEN EOFRes
    ELSE NewRepositoryFromPath(repositories[id].id, repositories[id].path)

\* RepositoryPool.GetRepo
GetRepo(id) ==
  IF id \notin DOMAIN repositories
    THEN NotFound(id)
    ELSE NewRepositoryFromPath(repositories[id].id, repositories[id].path)

\* RepositoryPool.GetPos (pos >= 0)
GetPos(p) ==
  IF p >= Cardinality(DOMAIN repositories)
    THEN EOFRes
    ELSE LET id == idOrder[p + 1]
         IN IF id = "" THEN EOFRes ELSE GetRepo(id)

\* NewRepositoryPool
EmptyPool == [x \in {} |-> gitRepo("", "")]

PoolInit ==
  /\ repositories = EmptyPool
  /\ idOrder = <<>>
  /\ lastOp = NoOp
  /\ regLog = <<>>
  /\ opened = {}

\* No RepositoryIter exists yet.
CursorInit ==
  /\ cursorPos = [c \in Cursors |-> 0]
  /\ cursorPc = [c \in Cursors |-> "none"]
  /\ cursorRes = [c \in Cursors |-> EOFRes]
  /\ cursorCalls = [c \in Cursors |-> 0]

\* A variant of Add that stores the repository before it looks for the id.
AddOverwrites(r) ==
  /\ Len(idOrder) < MaxRepos \/ r.id \in DOMAIN repositories
  /\ repositories' = [x \in DOMAIN repositories \cup {r.id} |->
                        IF x = r.id THEN r ELSE repositories[x]]
  /\ IF r.id \in DOMAIN repositories
       THEN /\ lastOp' = [op |-> "Add", id |-> r.id, path |-> r.path, pos |-> 0,
                          res |-> AlreadyRegistered(r.path)]
            /\ UNCHANGED <<idOrder, regLog>>
       ELSE /\ idOrder' = Append(idOrder, r.id)
            /\ regLog' = Append(regLog, r)
            /\ lastOp' = [op |-> "Add", id |-> r.id, path |-> r.path, pos |-> 0,
                          res |-> OkRes]
  /\ opened' = {}

\* A variant of Add that puts the new id in front of the order.
AddPrepends(r) ==
  /\ Len(idOrder) < MaxRepos \/ r.id \in DOMAIN repositories
  /\ IF r.id \in DOMAIN repositories
       THEN /\ lastOp' = [op |-> "Add", id |-> r.id, path |-> r.path, pos |-> 0,
                          res |-> AlreadyRegistered(repositories[r.id].path)]
            /\ UNCHANGED <<repositories, idOrder, regLog>>
       ELSE /\ idOrder' = <<r.id>> \o idOrder
            /\ repositories' = [x \in DOMAIN repositories \cup {r.id} |->
                                  IF x = r.id THEN r ELSE repositories[x]]
            /\ regLog' = Append(regLog, r)
            /\ lastOp' = [op |-> "Add", id |-> r.id, path |-> r.path, pos |-> 0,
                          res |-> OkRes]
  /\ opened' = {}

\* RepositoryPool.Add
Add(r) ==
  /\ Len(idOrder) < MaxRepos \/ r.id \in DOMAIN repositories
  /\ IF r.id \in DOMAIN repositories
       THEN /\ lastOp' = [op |-> "Add", id |-> r.id, path |-> r.path, pos |-> 0,
                          res |-> AlreadyRegistered(repositories[r.id].path)]
            /\ UNCHANGED <<repositories, idOrder, regLog>>
       ELSE /\ idOrder' = Append(idOrder, r.id)
            /\ repositories' = [x \in DOMAIN repositories \cup {r.id} |->
                                  IF x = r.id THEN r ELSE repositories[x]]
            /\ regLog' = Append(regLog, r)
            /\ lastOp' = [op |-> "Add", id |-> r.id, path |-> r.path, pos |-> 0,
                          res |-> OkRes]
  /\ opened' = {}

\* The locations GetRepo opens: that of the repository found (r.Repo()).
GetRepoOpens(id) ==
  IF id \in DOMAIN repositories THEN {repositories[id].path} ELSE {}

\* The locations GetPos opens.
GetPosOpens(p) ==
  IF p >= Cardinality(DOMAIN repositories) \/ idOrder[p + 1] = ""
    THEN {} ELSE GetRepoOpens(idOrder[p + 1])

\* A call of GetPos; the pool keeps nothing of it.
GetPosCall(p) ==
  /\ lastOp' = [op |-> "GetPos", id |-> "", path |-> "", pos |-> p, res |-> GetPos(p)]
  /\ opened' = GetPosOpens(p)
  /\ UNCHANGED <<repositories, idOrder, regLog>>

\* A call of GetRepo.
GetRepoCall(id) ==
  /\ lastOp' = [op |-> "GetRepo", id |-> id, path |-> "", pos |-> 0, res |-> GetRepo(id)]
  /\ opened' = GetRepoOpens(id)
  /\ UNCHANGED <<repositories, idOrder, regLog>>

\* ------------------------------------------------------------------ strings

\* strings.HasPrefix
HasPrefix(s, pre) == Len(s) >= Len(pre) /\ SubSeq(s, 1, Len(pre)) = pre

\* strings.HasSuffix
HasSuffix(s, suf) ==
  Len(s) >= Len(suf) /\ SubSeq(s, Len(s) - Len(suf) + 1, Len(s)) = suf

\* strings.TrimPrefix
TrimPrefix(s, pre) ==
  IF HasPrefix(s, pre) THEN SubSeq(s, Len(pre) + 1, Len(s)) ELSE s

\* strings.Replace(s, old, "", -1): every occurrence of old is removed.
RECURSIVE Replace(_, _)
Replace(s, old) ==
  IF old = "" \/ Len(s) < Len(old) THEN s
  ELSE IF HasPrefix(s, old) THEN Replace(SubSeq(s, Len(old) + 1, Len(s)), old)
  ELSE SubSeq(s, 1, 1) \o Replace(SubSeq(s, 2, Len(s)), old)

\* filepath.Join of a directory and a name: an empty element is dropped.
Join(a, b) ==
  IF a = "" THEN b
  ELSE IF HasSuffix(a, "/") THEN a \o b
  ELSE a \o "/" \o b

\* What follows the first "/" of s.
RECURSIVE AfterSlash(_)
AfterSlash(s) ==
  IF s = "" THEN ""
  ELSE IF SubSeq(s, 1, 1) = "/" THEN SubSeq(s, 2, Len(s))
  ELSE AfterSlash(SubSeq(s, 2, Len(s)))

\* IDFromPath(prefix, path): the path without its first prefix segments.
RECURSIVE IDFromPath(_, _)
IDFromPath(prefix, path) ==
  IF prefix = 0 THEN path
  ELSE IDFromPath(prefix - 1, AfterSlash(TrimPrefix(path, "/")))

\* --------------------------------------------------------------------- disk
\* os.FileInfo of a directory entry.
File(name) == [name |-> name, dir |-> FALSE]
Dir(name) == [name |-> name, dir |-> TRUE]

\* The directories; "/bad/locked" is the one that cannot be read.
Directories ==
  {"/", "/bad", "/bad/locked", "/siva", "/siva/sub", "/siva/sub/d.siva",
   "/siva/sub/deep"} \cup Paths

\* ioutil.ReadDir succeeds: the path is a directory that can be read.
Readable(path) == path \in Directories \ {"/bad/locked"}

\* ioutil.ReadDir: the entries of a directory, sorted by name.
ReadDir(path) ==
  CASE path = "/" ->
         <<Dir("bad"), Dir("noopen"), Dir("nosetup"), Dir("ok1"), Dir("ok2"),
           File("readme"), Dir("siva"), Dir("stuck")>>
    [] path = "/siva" -> <<File("notes.txt"), File("r1.siva"), Dir("sub")>>
    [] path = "/siva/sub" -> <<Dir("d.siva"), Dir("deep"), File("r2.siva")>>
    [] path = "/siva/sub/deep" -> <<File("r3.siva")>>
    [] path = "/bad" -> <<File("a.siva"), Dir("locked"), File("z.siva")>>
    [] OTHER -> <<>>

\* The directories the bulk imports are called on; "/missing" does not exist.
ScanRoots == {"/", "/siva", "/bad", "/missing"}

\* The prefix arguments of AddDir.
Prefixes == {0, 1}

\* -------------------------------------------------- registration from disk
\* errRepoCannotOpen.Wrap(err, path)
CannotOpen(path) ==
  [t |-> "CannotOpen", id |-> "", path |-> path, cause |-> "openerr"]
\* the error of ioutil.ReadDir
ReadDirErr(path) == [t |-> "readdirerr", id |-> "", path |-> path]
\* return path, nil
Added(path) == [t |-> "nil", id |-> "", path |-> path]

\* The pool as a value.
ThePool == [repositories |-> repositories, idOrder |-> idOrder, regLog |-> regLog]

\* A variant of Add that appends the id before it looks for it.
PoolAddAppendsFirst(P, r) ==
  IF r.id \in DOMAIN P.repositories
    THEN [pool |-> [P EXCEPT !.idOrder = Append(P.idOrder, r.id)],
          res |-> AlreadyRegistered(P.repositories[r.id].path)]
    ELSE [pool |-> [repositories |->
                      [x \in DOMAIN P.repositories \cup {r.id} |->
                         IF x = r.id THEN r ELSE P.repositories[x]],
                    idOrder |-> Append(P.idOrder, r.id),
                    regLog |-> Append(P.regLog, r)],
          res |-> OkRes]

\* RepositoryPool.Add on the pool P: the pool after it and the error.
PoolAdd(P, r) ==
  IF r.id \in DOMAIN P.repositories
    THEN [pool |-> P, res |-> AlreadyRegistered(P.repositories[r.id].path)]
    ELSE [pool |-> [repositories |->
                      [x \in DOMAIN P.repositories \cup {r.id} |->
                         IF x = r.id THEN r ELSE P.repositories[x]],
                    idOrder |-> Append(P.idOrder, r.id),
                    regLog |-> Append(P.regLog, r)],
          res |-> OkRes]

\* A variant of AddGitWithID that registers without looking at the open.
AddGitWithIDNoCheck(P, id, path) ==
  LET a == PoolAdd(P, gitRepo(id, path))
  IN IF a.res # OkRes THEN a ELSE [pool |-> a.pool, res |-> Added(path)]

\* RepositoryPool.AddGitWithID on the pool P.
AddGitWithID(P, id, path) ==
  IF ~Opens(path)
    THEN [pool |-> P, res |-> CannotOpen(path)]
    ELSE LET a == PoolAdd(P, gitRepo(id, path))
         IN IF a.res # OkRes THEN a ELSE [pool |-> a.pool, res |-> Added(path)]

\* The for loop of AddDir over the entries left: every failure is logged.
RECURSIVE AddDirEntries(_, _, _, _)
AddDirEntries(P, prefix, path, entries) ==
  IF entries = <<>> THEN P
  ELSE LET f == Head(entries)
           pa == Join(path, f.name)
           P2 == IF f.dir THEN AddGitWithID(P, IDFromPath(prefix, pa), pa).pool
                          ELSE P
       IN AddDirEntries(P2, prefix, path, Tail(entries))

\* RepositoryPool.AddDir on the pool P.
AddDir(P, prefix, path) ==
  IF ~Readable(path)
    THEN [pool |-> P, res |-> ReadDirErr(path)]
    ELSE [pool |-> AddDirEntries(P, prefix, path, ReadDir(path)), res |-> OkRes]

\* relativeFileName of addSivaFile; it goes to the log only.
RelativeFileName(root, path, f) ==
  IF root = path THEN f.name
  ELSE Join(TrimPrefix(Replace(path, root), "/\\"), f.name)

\* A variant of addSivaFile that registers the file under its relative name.
addSivaFileRelativeId(P, root, path, f) ==
  IF HasSuffix(f.name, ".siva")
    THEN PoolAdd(P, sivaRepo(RelativeFileName(root, path, f), Join(path, f.name))).pool
    ELSE P

\* RepositoryPool.addSivaFile on the pool P: p.Add(sivaRepo(path, path)), the
\* error of Add is dropped.
addSivaFile(P, root, path, f) ==
  IF HasSuffix(f.name, ".siva")
    THEN PoolAdd(P, sivaRepo(Join(path, f.name), Join(path, f.name))).pool
    ELSE P

\* RepositoryPool.addSivaDir on the pool P, and its for loop over the
\* entries left: the error of a subdirectory ends the scan.
RECURSIVE addSivaDir(_, _, _, _)
RECURSIVE addSivaEntries(_, _, _, _, _)
addSivaEntries(P, root, path, recursive, entries) ==
  IF entries = <<>> THEN [pool |-> P, res |-> OkRes]
  ELSE LET f == Head(entries)
       IN IF f.dir /\ recursive
            THEN LET sub == addSivaDir(P, root, Join(path, f.name), FALSE)
                 IN IF sub.res # OkRes
                      THEN sub
                      ELSE addSivaEntries(sub.pool, root, path, recursive, Tail(entries))
            ELSE addSivaEntries(addSivaFile(P, root, path, f), root, path,
                                recursive, Tail(entries))

addSivaDir(P, root, path, recursive) ==
  IF ~Readable(path)
    THEN [pool |-> P, res |-> ReadDirErr(path)]
    ELSE addSivaEntries(P, root, path, recursive, ReadDir(path))

\* The pool becomes P.
SetPool(P) ==
  /\ repositories' = P.repositories
  /\ idOrder' = P.idOrder
  /\ regLog' = P.regLog

\* A call of AddGitWithID (AddGit when id = path).
AddGitWithIDCall(id, path) ==
  /\ Len(idOrder) < MaxRepos \/ id \in DOMAIN repositories \/ ~Opens(path)
  /\ LET a == AddGitWithID(ThePool, id, path)
     IN /\ SetPool(a.pool)
        /\ lastOp' = [op |-> "AddGitWithID", id |-> id, path |-> path, pos |-> 0,
                      res |-> a.res]
  /\ opened' = {path}

\* A call of AddDir.
AddDirCall(prefix, path) ==
  /\ Len(idOrder) < MaxRepos
  /\ LET a == AddDir(ThePool, prefix, path)
     IN /\ SetPool(a.pool)
        /\ lastOp' = [op |-> "AddDir", id |-> "", path |-> path, pos |-> prefix,
                      res |-> a.res]
  /\ opened' = IF Readable(path)
                 THEN {Join(path, ReadDir(path)[i].name) :
                         i \in {j \in 1..Len(ReadDir(path)) : ReadDir(path)[j].dir}}
                 ELSE {}

\* A call of AddSivaDir.
AddSivaDirCall(path) ==
  /\ Len(idOrder) < MaxRepos
  /\ LET a == addSivaDir(ThePool, path, path, TRUE)
     IN /\ SetPool(a.pool)
        /\ lastOp' = [op |-> "AddSivaDir", id |-> "", path |-> path, pos |-> 0,
                      res |-> a.res]
  /\ opened' = {}

\* ----------------------------------------------------------- RepositoryIter
\* A cursor that does not advance.
StayAtPos(n) == n

\* atomic.AddInt32(&i.pos, 1)
AdvancePos(n) == n + 1

\* RepositoryPool.RepoIter: a new iterator at position 0.
RepoIterCall(c) ==
  /\ cursorPc[c] = "none"
  /\ cursorPos' = [cursorPos EXCEPT ![c] = 0]
  /\ cursorPc' = [cursorPc EXCEPT ![c] = "idle"]
  /\ UNCHANGED <<repositories, idOrder, lastOp, regLog, opened, cursorRes, cursorCalls>>

\* RepositoryIter.Next, first half: pos is read and GetPos called.  Next is
\* called until it has returned io.EOF for the end of the pool.
CursorGet(c) ==
  /\ cursorPc[c] = "idle"
  /\ cursorPos[c] <= Len(idOrder)
  /\ cursorRes' = [cursorRes EXCEPT ![c] = GetPos(cursorPos[c])]
  /\ opened' = GetPosOpens(cursorPos[c])
  /\ cursorPc' = [cursorPc EXCEPT ![c] = "got"]
  /\ UNCHANGED <<repositories, idOrder, lastOp, regLog, cursorPos, cursorCalls>>

\* A variant of the second half in which the iterators share one position.
CursorAdvanceShared(c) ==
  /\ cursorPc[c] = "got"
  /\ cursorPos' = [d \in Cursors |-> AdvancePos(cursorPos[d])]
  /\ cursorPc' = [cursorPc EXCEPT ![c] = "idle"]
  /\ cursorCalls' = [cursorCalls EXCEPT ![c] = @ + 1]
  /\ UNCHANGED <<repositories, idOrder, lastOp, regLog, opened, cursorRes>>

\* RepositoryIter.Next, second half: pos is advanced and the result returned.
CursorAdvance(c) ==
  /\ cursorPc[c] = "got"
  /\ cursorPos' = [cursorPos EXCEPT ![c] = AdvancePos(cursorPos[c])]
  /\ cursorPc' = [cursorPc EXCEPT ![c] = "idle"]
  /\ cursorCalls' = [cursorCalls EXCEPT ![c] = @ + 1]
  /\ UNCHANGED <<repositories, idOrder, lastOp, regLog, opened, cursorRes>>

\* ============================================================== rowRepoIter

\* What Next returns: a row (of the repository at pool position pos, its
\* n-th), io.EOF, ErrSessionCanceled or an error.
Row(p, n) == [t |-> "row", pos |-> p, n |-> n]
EOF == [t |-> "EOF", pos |-> 0, n |-> 0]
ErrSessionCanceled == [t |-> "Canceled", pos |-> 0, n |-> 0]
OpenErr(p) == [t |-> "openerr", pos |-> p, n |-> 0]
SetupErr(p) == [t |-> "setuperr", pos |-> p, n |-> 0]
SubErr(p, n) == [t |-> "suberr", pos |-> p, n |-> n]
NoRet == [t |-> "none", pos |-> 0, n |-> 0]
NoRepo == [pos |-> 0, path |-> ""]
NoCloseHist == [quiet |-> FALSE, active |-> FALSE, subCloses |-> 0,
                subErr |-> FALSE, iterRet |-> "none"]

\* The pools a query can run over: what Add builds from backends of
\* distinct ids (AddGit registers a path under itself as id).
DriverBackends == {gitRepo(p, p) : p \in Paths} \cup {gitRepo("", "/ok1")}

RECURSIVE PoolsOfLen(_)
PoolsOfLen(n) ==
  IF n = 0 THEN {<<>>}
  ELSE {Append(s, b) : <<s, b>> \in
          {x \in PoolsOfLen(n - 1) \X DriverBackends :
             \A i \in 1..Len(x[1]) : x[1][i].id # x[2].id}}

DriverPools == UNION {PoolsOfLen(n) : n \in 0..MaxRepos}

\* NewRowRepoIter over a populated pool: RepoIter() at position 0, no
\* current sub-iterator.
Init ==
  /\ \E pool \in DriverPools :
       /\ regLog = pool
       /\ idOrder = [i \in 1..Len(pool) |-> pool[i].id]
       /\ repositories = [x \in {pool[i].id : i \in 1..Len(pool)} |->
                            CHOOSE b \in {pool[i] : i \in 1..Len(pool)} : b.id = x]
  /\ lastOp = NoOp
  /\ opened = {}
  /\ CursorInit
  /\ mu = Unlocked
  /\ currRepoIter = Nil
  /\ pos = 0
  /\ skipGitErrors \in BOOLEAN
  /\ canceled = FALSE
  /\ subs = <<>>
  /\ iterClosed = 0
  /\ pc = [p \in Callers |-> "idle"]
  /\ repo = [p \in Callers |-> NoRepo]
  /\ ret = [p \in Callers |-> NoRet]
  /\ out = <<>>
  /\ calls = 0
  /\ entryCanceled = [p \in Callers |-> FALSE]
  /\ touched = [p \in Callers |-> FALSE]
  /\ itStartCanceled = [p \in Callers |-> FALSE]
  /\ cpc = "idle"
  /\ closeSeen = Nil
  /\ closeRet = "none"
  /\ closeHist = NoCloseHist
  /\ panicked = FALSE

\* What the sub-iterator's Next returns: "row", "EOF" or "stuck".
SubStep(s) ==
  IF s.idx > Len(Script(s.path)) THEN "EOF" ELSE Script(s.path)[s.idx]

\* The sub-iterator after its Next: a row is consumed.
SubAfter(s) ==
  [s EXCEPT !.idx = IF SubStep(s) = "row" THEN s.idx + 1 ELSE s.idx,
            !.stale = s.stale \/ s.closed > 0]

\* A select that never finds the context done.
DoneNever(c) == FALSE

\* case <-i.ctx.Done(): taken when the context is done.
Done(c) == c

\* An iterator that skips errors whatever the session says.
AlwaysTolerate(skip) == TRUE

\* An iterator that never skips an error.
NeverTolerate(skip) == FALSE

\* if i.session.SkipGitErrors { continue }
Tolerate(skip) == skip


\* return from Next: the deferred Unlock runs, the caller has its result.
Return(p, r) ==
  /\ pc' = [pc EXCEPT ![p] = "idle"]
  /\ mu' = Unlocked
  /\ ret' = [ret EXCEPT ![p] = r]
  /\ out' = Append(out, r)

\* A continue that re-enters the body without passing the select.
ContinueNoSelect(p) ==
  /\ pc' = [pc EXCEPT ![p] =
              IF pc[p] = "subnext" /\ SubStep(subs[currRepoIter]) # "EOF"
                THEN "subnext" ELSE "pull"]
  /\ itStartCanceled' = [itStartCanceled EXCEPT ![p] = canceled]
  /\ UNCHANGED <<mu, ret, out>>

\* continue: back to the top of the for loop.
Continue(p) ==
  /\ pc' = [pc EXCEPT ![p] = "head"]
  /\ itStartCanceled' = [itStartCanceled EXCEPT ![p] = canceled]
  /\ UNCHANGED <<mu, ret, out>>

\* A caller calls Next.  Next is called only before Close is.
NextCall(p) ==
  /\ ~panicked
  /\ pc[p] = "idle"
  /\ cpc = "idle"
  /\ calls < MaxCalls
  /\ pc' = [pc EXCEPT ![p] = "lock"]
  /\ calls' = calls + 1
  /\ ret' = [ret EXCEPT ![p] = NoRet]
  /\ entryCanceled' = [entryCanceled EXCEPT ![p] = canceled]
  /\ touched' = [touched EXCEPT ![p] = FALSE]
  /\ UNCHANGED <<poolVars, iterVars, repo, out, itStartCanceled, closeVars>>

\* i.mu.Lock()
NextLock(p) ==
  /\ ~panicked
  /\ pc[p] = "lock"
  /\ mu = Unlocked
  /\ mu' = p
  /\ pc' = [pc EXCEPT ![p] = "head"]
  /\ itStartCanceled' = [itStartCanceled EXCEPT ![p] = canceled]
  /\ UNCHANGED <<poolVars, currRepoIter, pos, skipGitErrors, canceled, subs,
                 iterClosed, repo, ret, out, calls, entryCanceled, touched,
                 closeVars>>

\* for { select { case <-i.ctx.Done(): ... default: if i.currRepoIter == nil
NextSelect(p) ==
  /\ ~panicked
  /\ pc[p] = "head"
  /\ IF Done(canceled)
       THEN Return(p, ErrSessionCanceled)
       ELSE /\ pc' = [pc EXCEPT ![p] = IF currRepoIter = Nil THEN "pull" ELSE "subnext"]
            /\ UNCHANGED <<mu, ret, out>>
  /\ UNCHANGED <<poolVars, currRepoIter, pos, skipGitErrors, canceled, subs,
                 iterClosed, repo, calls, entryCanceled, touched,
                 itStartCanceled, closeVars>>

\* repo, err := i.repositoryIter.Next()   (RepositoryIter.Next: GetPos at
\* the position read, then the position is advanced)
NextPull(p) ==
  /\ ~panicked
  /\ pc[p] = "pull"
  /\ pos' = AdvancePos(pos)
  /\ touched' = [touched EXCEPT ![p] = TRUE]
  /\ LET r == GetPos(pos)
     IN CASE r.t = "EOF" ->
               /\ Return(p, EOF)
               /\ UNCHANGED <<repo, itStartCanceled>>
          [] r.t = "repo" ->
               /\ repo' = [repo EXCEPT ![p] = [pos |-> pos, path |-> r.path]]
               /\ pc' = [pc EXCEPT ![p] = "newiter"]
               /\ UNCHANGED <<mu, ret, out, itStartCanceled>>
          [] OTHER ->
               /\ IF Tolerate(skipGitErrors)
                    THEN Continue(p)
                    ELSE Return(p, OpenErr(pos)) /\ UNCHANGED itStartCanceled
               /\ UNCHANGED repo
  /\ UNCHANGED <<poolVars, currRepoIter, skipGitErrors, canceled, subs,
                 iterClosed, calls, entryCanceled, closeVars>>

\* i.currRepoIter, err = i.iter.NewIterator(repo); a NewIterator that fails
\* returns a nil iterator.
NextNewIterator(p) ==
  /\ ~panicked
  /\ pc[p] = "newiter"
  /\ touched' = [touched EXCEPT ![p] = TRUE]
  /\ IF SetupOK(repo[p].path)
       THEN /\ subs' = Append(subs, [pos |-> repo[p].pos, path |-> repo[p].path,
                                     idx |-> 1, closed |-> 0, stale |-> FALSE])
            /\ currRepoIter' = Len(subs) + 1
            /\ pc' = [pc EXCEPT ![p] = "subnext"]
            /\ UNCHANGED <<mu, ret, out, itStartCanceled>>
       ELSE /\ currRepoIter' = Nil
            /\ UNCHANGED subs
            /\ IF Tolerate(skipGitErrors)
                 THEN Continue(p)
                 ELSE Return(p, SetupErr(repo[p].pos)) /\ UNCHANGED itStartCanceled
  /\ UNCHANGED <<poolVars, pos, skipGitErrors, canceled, iterClosed, repo,
                 calls, entryCanceled, closeVars>>

\* row, err := i.currRepoIter.Next() and the branch on err; on io.EOF
\* i.currRepoIter.Close(); i.currRepoIter = nil; continue
NextSubNext(p) ==
  /\ ~panicked
  /\ pc[p] = "subnext"
  /\ touched' = [touched EXCEPT ![p] = TRUE]
  /\ LET s == subs[currRepoIter]
         r == SubStep(s)
     IN CASE r = "row" ->
               /\ subs' = [subs EXCEPT ![currRepoIter] = SubAfter(s)]
               /\ Return(p, Row(s.pos, s.idx))
               /\ UNCHANGED <<currRepoIter, itStartCanceled>>
          [] r = "EOF" ->
               /\ subs' = [subs EXCEPT ![currRepoIter] =
                             [SubAfter(s) EXCEPT !.closed = @ + 1]]
               /\ currRepoIter' = Nil
               /\ Continue(p)
          [] OTHER ->
               /\ subs' = [subs EXCEPT ![currRepoIter] = SubAfter(s)]
               /\ IF Tolerate(skipGitErrors)
                    THEN Continue(p)
                    ELSE Return(p, SubErr(s.pos, s.idx)) /\ UNCHANGED itStartCanceled
               /\ UNCHANGED currRepoIter
  /\ UNCHANGED <<poolVars, pos, skipGitErrors, canceled,
                 iterClosed, repo, calls, entryCanceled, closeVars>>

\* The query context is canceled.
Cancel ==
  /\ ~panicked
  /\ ~canceled
  /\ canceled' = TRUE
  /\ UNCHANGED <<poolVars, mu, currRepoIter, pos, skipGitErrors, subs,
                 iterClosed, nextVars, closeVars>>

\* ------------------------------------------------------- rowRepoIter.Close
\* Close takes no lock: its reads of i.currRepoIter race with the writes of
\* a Next in flight.

\* A Close that leaves the sub-iterator alone when errors are skipped.
CloseCheckGated ==
  /\ ~panicked
  /\ cpc = "idle"
  /\ closeSeen' = currRepoIter
  /\ closeHist' = [quiet |-> \A p \in Callers : pc[p] = "idle",
                   active |-> currRepoIter # Nil, subCloses |-> 0,
                   subErr |-> FALSE, iterRet |-> "none"]
  /\ cpc' = IF currRepoIter # Nil /\ ~skipGitErrors THEN "closesub" ELSE "release"
  /\ UNCHANGED <<poolVars, iterVars, nextVars, closeRet, panicked>>

\* if i.currRepoIter != nil
CloseCheck ==
  /\ ~panicked
  /\ cpc = "idle"
  /\ closeSeen' = currRepoIter
  /\ closeHist' = [quiet |-> \A p \in Callers : pc[p] = "idle",
                   active |-> currRepoIter # Nil, subCloses |-> 0,
                   subErr |-> FALSE, iterRet |-> "none"]
  /\ cpc' = IF currRepoIter # Nil THEN "closesub" ELSE "release"
  /\ UNCHANGED <<poolVars, iterVars, nextVars, closeRet, panicked>>

\* i.currRepoIter.Close(): the receiver is the value the check read or a
\* second read of the field; a nil receiver panics.  The error is dropped.
CloseSub ==
  /\ ~panicked
  /\ cpc = "closesub"
  /\ \E target \in {closeSeen, currRepoIter} :
       IF target = Nil
         THEN /\ panicked' = TRUE
              /\ cpc' = "panic"
              /\ UNCHANGED <<subs, closeHist>>
         ELSE /\ subs' = [subs EXCEPT ![target].closed = @ + 1]
              /\ \E e \in BOOLEAN :
                   closeHist' = [closeHist EXCEPT !.subCloses = @ + 1, !.subErr = e]
              /\ cpc' = "release"
              /\ UNCHANGED panicked
  /\ UNCHANGED <<poolVars, mu, currRepoIter, pos, skipGitErrors, canceled,
                 iterClosed, nextVars, closeSeen, closeRet>>

\* return i.iter.Close()
CloseRelease ==
  /\ ~panicked
  /\ cpc = "release"
  /\ iterClosed' = iterClosed + 1
  /\ \E r \in {"nil", "err"} :
       /\ closeRet' = r
       /\ closeHist' = [closeHist EXCEPT !.iterRet = r]
  /\ cpc' = "done"
  /\ UNCHANGED <<poolVars, mu, currRepoIter, pos, skipGitErrors, canceled,
                 subs, nextVars, closeSeen, panicked>>

Next ==
  \/ \E p \in Callers : NextCall(p)
  \/ \E p \in Callers : NextLock(p)
  \/ \E p \in Callers : NextSelect(p)
  \/ \E p \in Callers : NextPull(p)
  \/ \E p \in Callers : NextNewIterator(p)
  \/ \E p \in Callers : NextSubNext(p)
  \/ Cancel
  \/ CloseCheck
  \/ CloseSub
  \/ CloseRelease

Spec == Init /\ [][Next]_vars

\* ------------------------------------------------------ one caller, fairly
\* The goroutine that calls Next on an iterator that skips errors; no Close
\* and no cancellation.
Consumer == "n1"

InitLive == Init /\ skipGitErrors

\* The steps inside a call of Next.
NextBody ==
  \/ NextLock(Consumer)
  \/ NextSelect(Consumer)
  \/ NextPull(Consumer)
  \/ NextNewIterator(Consumer)
  \/ NextSubNext(Consumer)

NextLive == NextCall(Consumer) \/ NextBody

\* A goroutine inside Next keeps running.
SpecLive == InitLive /\ [][NextLive]_vars /\ WF_vars(NextBody)


\* ------------------------------------------------------- the pool on its own
InitPool ==
  /\ PoolInit
  /\ CursorInit
  /\ mu = Unlocked
  /\ currRepoIter = Nil
  /\ pos = 0
  /\ skipGitErrors = FALSE
  /\ canceled = FALSE
  /\ subs = <<>>
  /\ iterClosed = 0
  /\ pc = [p \in Callers |-> "idle"]
  /\ repo = [p \in Callers |-> NoRepo]
  /\ ret = [p \in Callers |-> NoRet]
  /\ out = <<>>
  /\ calls = 0
  /\ entryCanceled = [p \in Callers |-> FALSE]
  /\ touched = [p \in Callers |-> FALSE]
  /\ itStartCanceled = [p \in Callers |-> FALSE]
  /\ cpc = "idle"
  /\ closeSeen = Nil
  /\ closeRet = "none"
  /\ closeHist = NoCloseHist
  /\ panicked = FALSE

NextPool ==
  \/ \E r \in Backends : Add(r) /\ UNCHANGED <<cursorVars, iterVars, nextVars, closeVars>>
  \/ \E p \in 0..(MaxRepos + 1) : GetPosCall(p) /\ UNCHANGED <<cursorVars, iterVars, nextVars, closeVars>>
  \/ \E id \in Ids : GetRepoCall(id) /\ UNCHANGED <<cursorVars, iterVars, nextVars, closeVars>>
  \/ \E id \in Ids, path \in Paths :
       AddGitWithIDCall(id, path) /\ UNCHANGED <<cursorVars, iterVars, nextVars, closeVars>>

SpecPool == InitPool /\ [][NextPool]_vars

\* ------------------------------------------------------- the import harness
\* What is registered by hand next to the imports: ids that the imports
\* produce too, and the empty id.
ImportBackends ==
  {gitRepo("/ok1", "/ok2"), sivaRepo("/bad/a.siva", "/siva/r1.siva"), gitRepo("", "/ok1")}

\* The RepositoryIter used while the pool is being filled.
PoolCursors == {"c1"}

NextImport ==
  \/ \E r \in ImportBackends : Add(r) /\ UNCHANGED <<cursorVars, iterVars, nextVars, closeVars>>
  \/ \E p \in 0..MaxRepos : GetPosCall(p) /\ UNCHANGED <<cursorVars, iterVars, nextVars, closeVars>>
  \/ \E id \in {"", "/ok1"} : GetRepoCall(id) /\ UNCHANGED <<cursorVars, iterVars, nextVars, closeVars>>
  \/ \E path \in {"/ok1", "/noopen"} :
       AddGitWithIDCall(path, path) /\ UNCHANGED <<cursorVars, iterVars, nextVars, closeVars>>
  \/ \E prefix \in Prefixes, path \in ScanRoots :
       AddDirCall(prefix, path) /\ UNCHANGED <<cursorVars, iterVars, nextVars, closeVars>>
  \/ \E path \in ScanRoots :
       AddSivaDirCall(path) /\ UNCHANGED <<cursorVars, iterVars, nextVars, closeVars>>
  \/ \E c \in PoolCursors : RepoIterCall(c) /\ UNCHANGED <<iterVars, nextVars, closeVars>>
  \/ \E c \in PoolCursors : CursorGet(c) /\ UNCHANGED <<iterVars, nextVars, closeVars>>
  \/ \E c \in PoolCursors : CursorAdvance(c) /\ UNCHANGED <<iterVars, nextVars, closeVars>>

SpecImport == InitPool /\ [][NextImport]_vars

\* ------------------------------------------------------- the cursor harness
\* Several RepositoryIter over one pool that no longer changes.
NextCursor ==
  \/ \E c \in Cursors : RepoIterCall(c) /\ UNCHANGED <<iterVars, nextVars, closeVars>>
  \/ \E c \in Cursors : CursorGet(c) /\ UNCHANGED <<iterVars, nextVars, closeVars>>
  \/ \E c \in Cursors : CursorAdvance(c) /\ UNCHANGED <<iterVars, nextVars, closeVars>>

SpecCursor == Init /\ [][NextCursor]_vars


\* =================================================================== claims

\* The rows of the repository registered i-th (pool position i - 1).
RowsOfPos(i) == [n \in 1..Len(Script(regLog[i].path)) |-> Row(i - 1, n)]

\* The rows of the repositories of S, in registration order, from the i-th on.
RECURSIVE Concat(_, _)
Concat(i, S) ==
  IF i > Len(regLog) THEN <<>>
  ELSE (IF i \in S THEN RowsOfPos(i) ELSE <<>>) \o Concat(i + 1, S)

\* Everything Next has returned so far is exp, in order, and io.EOF after it.
StreamIs(exp) ==
  \A j \in 1..Len(out) : out[j] = IF j <= Len(exp) THEN exp[j] ELSE EOF

\* The repository opens, its sub-iterator is set up and yields rows only.
GoodBackend(b) ==
  /\ Opens(b.path)
  /\ SetupOK(b.path)
  /\ \A k \in 1..Len(Script(b.path)) : Script(b.path)[k] = "row"

\* The repository fails to open or to be set up, and nothing else.
FailingBackend(b) == ~Opens(b.path) \/ ~SetupOK(b.path)

AllPositions == 1..Len(regLog)
NoEmptyId == \A i \in AllPositions : regLog[i].id # ""

\* C1 as stated: over any pool whose repositories all open and iterate
\* without failure, and without cancellation, Next returns the rows of every
\* repository in registration order and then io.EOF.
C1_AsStated ==
  ((\A i \in AllPositions : GoodBackend(regLog[i])) /\ ~canceled)
    => StreamIs(Concat(1, AllPositions))

\* C1 (amended): the same for pools in which no repository has the empty id.
C1_Concatenation ==
  ((\A i \in AllPositions : GoodBackend(regLog[i])) /\ NoEmptyId /\ ~canceled)
    => StreamIs(Concat(1, AllPositions))

\* Two repositories with rows [1,2] and [3]: 1, 2, 3, io.EOF was returned.
C1_Witness ==
  /\ Len(regLog) = 2 /\ NoEmptyId
  /\ regLog[1].path = "/ok2" /\ regLog[2].path = "/ok1"
  /\ ~canceled
  /\ out = <<Row(0, 1), Row(0, 2), Row(1, 1), EOF>>

\* Exactly one repository of the pool fails to open or to be set up, the
\* others are good.
OneFailing ==
  /\ Cardinality({i \in AllPositions : FailingBackend(regLog[i])}) = 1
  /\ \A i \in AllPositions : FailingBackend(regLog[i]) \/ GoodBackend(regLog[i])

GoodPositions == {i \in AllPositions : GoodBackend(regLog[i])}

\* C2 as stated: with SkipGitErrors, when one repository fails to open or to
\* be set up, Next returns the rows of the others in registration order, then
\* io.EOF, and never the failure.
C2_AsStated ==
  (skipGitErrors /\ OneFailing /\ ~canceled) => StreamIs(Concat(1, GoodPositions))

\* C2 (amended): the same for pools in which no repository has the empty id.
C2_SkipsFailedRepository ==
  (skipGitErrors /\ OneFailing /\ NoEmptyId /\ ~canceled)
    => StreamIs(Concat(1, GoodPositions))

\* The first of two repositories failed, the rows of the second and io.EOF
\* were returned.
C2_Witness ==
  /\ skipGitErrors /\ OneFailing /\ NoEmptyId /\ ~canceled
  /\ Len(regLog) = 2 /\ FailingBackend(regLog[1])
  /\ Len(out) = Len(Concat(1, GoodPositions)) + 1
  /\ out[Len(out)] = EOF

\* The repository at pool position k is looked up and fails to open or to be
\* set up.
FailsAt(k) ==
  /\ k < Len(idOrder)
  /\ idOrder[k + 1] # ""
  /\ FailingBackend(repositories[idOrder[k + 1]])

IsFailureOf(r, k) == r.t \in {"openerr", "setuperr"} /\ r.pos = k

C4_CanceledAtEntry ==
  \A p \in Callers :
    entryCanceled[p] =>
      /\ ~touched[p]
      /\ pc[p] \in {"lock", "head", "idle"}
      /\ pc[p] = "idle" => ret[p] = ErrSessionCanceled

\* Such a Next has returned, with a sub-iterator active and errors skipped.
C4_Witness ==
  \E p \in Callers :
    /\ entryCanceled[p] /\ pc[p] = "idle" /\ ret[p] = ErrSessionCanceled
    /\ currRepoIter # Nil /\ skipGitErrors

\* C5: no loop iteration of Next that began with the context done pulls from
\* the cursor or calls the sub-iterator; such an iteration returns
\* ErrSessionCanceled.
C5_CancelPerIteration ==
  \A p \in Callers :
    /\ pc[p] \in {"pull", "newiter", "subnext"} => ~itStartCanceled[p]
    /\ (pc[p] = "idle" /\ itStartCanceled[p]) => ret[p] = ErrSessionCanceled

\* A Next called before the cancellation did some work, looped and returned
\* ErrSessionCanceled.
C5_Witness ==
  \E p \in Callers :
    /\ ~entryCanceled[p] /\ touched[p]
    /\ pc[p] = "idle" /\ ret[p] = ErrSessionCanceled

\* A caller of Next is executing the body of Next (it holds the lock).
InNextBody(p) == pc[p] \in {"head", "pull", "newiter", "subnext"}

\* Close is executing its body: it has read i.currRepoIter and has not
\* returned.
InCloseBody == cpc \in {"closesub", "release"}

\* C6: at most one call of Next or Close on one iterator is executing its
\* body at any time.
C6_MutualExclusion ==
  Cardinality({p \in Callers : InNextBody(p)}) + (IF InCloseBody THEN 1 ELSE 0) <= 1

\* Close was called with no Next in flight and found a sub-iterator active.
QuietActiveClose == closeHist.quiet /\ closeHist.active

\* C7 as stated: a Close on an iterator with an active sub-iterator closes
\* that sub-iterator exactly once whatever SkipGitErrors is, ignores the
\* error of that close, then closes the factory, and returns no error.
C7_AsStated ==
  QuietActiveClose =>
    /\ cpc # "panic"
    /\ cpc = "closesub" => iterClosed = 0
    /\ cpc \in {"release", "done"} =>
         closeHist.subCloses = 1 /\ subs[closeSeen].closed = 1
    /\ cpc = "done" => iterClosed = 1 /\ closeRet = "nil"

\* C7 (amended): ... then closes the factory and returns what the factory's
\* Close returned.
C7_CloseActive ==
  QuietActiveClose =>
    /\ cpc # "panic"
    /\ cpc = "closesub" => iterClosed = 0
    /\ cpc \in {"release", "done"} =>
         closeHist.subCloses = 1 /\ subs[closeSeen].closed = 1
    /\ cpc = "done" => iterClosed = 1 /\ closeRet = closeHist.iterRet

\* Close has returned after rows of the active repository were consumed and
\* the close of the sub-iterator failed.
C7_Witness ==
  /\ QuietActiveClose /\ cpc = "done"
  /\ closeHist.subErr
  /\ \E j \in 1..Len(out) : out[j].t = "row" /\ out[j].pos = subs[closeSeen].pos
  /\ SubStep(subs[closeSeen]) = "row"

\* C8 as stated: without SkipGitErrors, a Next that got an error other than
\* io.EOF from the active sub-iterator has closed that sub-iterator when it
\* returns the error.
C8_AsStated ==
  \A p \in Callers :
    (~skipGitErrors /\ pc[p] = "idle" /\ ret[p].t = "suberr") =>
      \A k \in 1..Len(subs) : subs[k].pos = ret[p].pos => subs[k].closed >= 1

\* C8 (amended): without SkipGitErrors, a Next that gets an error other than
\* io.EOF from the active sub-iterator returns that error in the same call
\* and leaves the sub-iterator open and active.
C8_SubErrorReturned ==
  [][\A p \in Callers :
       (/\ pc[p] = "subnext"
        /\ pc'[p] # "subnext"
        /\ ~skipGitErrors
        /\ SubStep(subs[currRepoIter]) = "stuck")
       => /\ pc'[p] = "idle"
          /\ ret'[p] = SubErr(subs[currRepoIter].pos, subs[currRepoIter].idx)
          /\ out' = Append(out, ret'[p])
          /\ currRepoIter' = currRepoIter
          /\ subs'[currRepoIter].closed = subs[currRepoIter].closed]_vars

\* A Next has returned the error of the sub-iterator, which is still active
\* and open.
C8_Witness ==
  \E p \in Callers :
    /\ ~skipGitErrors /\ pc[p] = "idle" /\ ret[p].t = "suberr"
    /\ currRepoIter # Nil
    /\ subs[currRepoIter].pos = ret[p].pos
    /\ subs[currRepoIter].closed = 0

\* C9 as stated: after N registrations of distinct ids, GetPos(i), i < N,
\* is the repository of the backend registered i-th; GetPos(p), p >= N, is
\* io.EOF.
C9_AsStated ==
  lastOp.op = "GetPos" =>
    IF lastOp.pos < Len(regLog)
      THEN lastOp.res = NewRepositoryFromPath(regLog[lastOp.pos + 1].id,
                                              regLog[lastOp.pos + 1].path)
      ELSE lastOp.res = EOFRes

\* C9 (amended): after N registrations of distinct ids, GetPos(i), i < N, is
\* what opening the backend registered i-th gives when its id is not empty,
\* and io.EOF when it is; GetPos(p), p >= N, is io.EOF.
C9_GetPosOrder ==
  lastOp.op = "GetPos" =>
    IF lastOp.pos < Len(regLog)
      THEN IF regLog[lastOp.pos + 1].id # ""
             THEN lastOp.res = NewRepositoryFromPath(regLog[lastOp.pos + 1].id,
                                                     regLog[lastOp.pos + 1].path)
             ELSE lastOp.res = EOFRes
      ELSE lastOp.res = EOFRes

\* GetPos(1) on a pool of two repositories returned the second.
C9_Witness ==
  /\ lastOp.op = "GetPos" /\ lastOp.pos = 1
  /\ Len(regLog) = 2
  /\ lastOp.res.t = "repo" /\ lastOp.res.id = regLog[2].id
  /\ regLog[1].path # regLog[2].path

\* C10: Add of an id that is in the pool fails with
\* errRepoAlreadyRegistered carrying the path of the repository in the pool
\* and leaves repositories and idOrder as they were.
C10_DuplicateRejected ==
  [][(/\ lastOp'.op = "Add"
      /\ lastOp' # lastOp
      /\ lastOp'.id \in DOMAIN repositories)
     => /\ lastOp'.res = AlreadyRegistered(repositories[lastOp'.id].path)
        /\ repositories' = repositories
        /\ idOrder' = idOrder]_vars

\* An Add of a registered id with another path was rejected.
C10_Witness ==
  /\ lastOp.op = "Add"
  /\ lastOp.res.t = "AlreadyRegistered"
  /\ lastOp.res.path # lastOp.path
  /\ lastOp.id \in DOMAIN repositories
  /\ Len(idOrder) = Cardinality(DOMAIN repositories)

\* ------------------------------------------------------------- C11 .. C13
\* C11: whatever registrations, imports, lookups and RepositoryIter steps
\* have run, failed ones included, idOrder holds every key of repositories
\* once and nothing else.
C11_OrderMatchesMap ==
  /\ Len(idOrder) = Cardinality(DOMAIN repositories)
  /\ {idOrder[i] : i \in 1..Len(idOrder)} = DOMAIN repositories

\* AddDir("/", 0) ran on a pool that held the id "/ok1" for another
\* location, so one of its entries was rejected, and a RepositoryIter has
\* fetched a repository.
C11_Witness ==
  /\ lastOp.op = "AddDir" /\ lastOp.path = "/" /\ lastOp.pos = 0
  /\ "/ok1" \in DOMAIN repositories /\ repositories["/ok1"].path = "/ok2"
  /\ Len(idOrder) >= 4
  /\ cursorPc["c1"] = "got" /\ cursorRes["c1"].t = "repo"

\* C12: GetRepo of an id that is not in the pool returns
\* ErrPoolRepoNotFound(id) and opens nothing; no GetRepo and no GetPos
\* changes repositories or idOrder.
C12_LookupKeepsNothing ==
  [][(/\ lastOp'.op \in {"GetRepo", "GetPos"}
      /\ lastOp' # lastOp)
     => /\ repositories' = repositories
        /\ idOrder' = idOrder
        /\ (lastOp'.op = "GetRepo" /\ lastOp'.id \notin DOMAIN repositories)
             => (lastOp'.res = NotFound(lastOp'.id) /\ opened' = {})]_vars

\* GetRepo of an id that is not in a pool that holds other ids.
C12_Witness ==
  /\ lastOp.op = "GetRepo"
  /\ lastOp.id \notin DOMAIN repositories
  /\ lastOp.res = NotFound(lastOp.id)
  /\ Len(idOrder) >= 1
  /\ opened = {}

\* C13: AddGitWithID opens the path first.  When that fails it returns
\* errRepoCannotOpen with the cause and the path and the pool is as it was;
\* the pool grows, by the git repository at the end, exactly when the open
\* succeeded and the id was not in the pool.
C13_OpenBeforeRegister ==
  [][(/\ lastOp'.op = "AddGitWithID"
      /\ lastOp' # lastOp)
     => /\ lastOp'.path \in opened'
        /\ ~Opens(lastOp'.path)
             => /\ lastOp'.res.t = "CannotOpen"
                /\ lastOp'.res.path = lastOp'.path
                /\ lastOp'.res.cause = "openerr"
                /\ repositories' = repositories
                /\ idOrder' = idOrder
        /\ IF Opens(lastOp'.path) /\ lastOp'.id \notin DOMAIN repositories
             THEN /\ idOrder' = Append(idOrder, lastOp'.id)
                  /\ DOMAIN repositories' = DOMAIN repositories \cup {lastOp'.id}
                  /\ repositories'[lastOp'.id] = gitRepo(lastOp'.id, lastOp'.path)
                  /\ \A x \in DOMAIN repositories : repositories'[x] = repositories[x]
             ELSE /\ repositories' = repositories
                  /\ idOrder' = idOrder]_vars

\* AddGitWithID of a new id and a path that does not open, on a pool that
\* holds a repository.
C13_Witness ==
  /\ lastOp.op = "AddGitWithID"
  /\ lastOp.res.t = "CannotOpen"
  /\ lastOp.id \notin DOMAIN repositories
  /\ Len(idOrder) = 1
  /\ lastOp.path \in opened

\* ------------------------------------------------------------- C14 .. C16
\* The entries of a directory that can be read.
Entries(path) ==
  IF Readable(path) THEN {ReadDir(path)[i] : i \in 1..Len(ReadDir(path))} ELSE {}

\* The regular files with the archive suffix that lie directly in path.
ArchiveFilesIn(path) ==
  {Join(path, f.name) : f \in {g \in Entries(path) : ~g.dir /\ HasSuffix(g.name, ".siva")}}

\* The regular files with the archive suffix directly in root or directly in
\* a subdirectory of root.
ExpectedArchives(root) ==
  ArchiveFilesIn(root) \cup
  UNION {ArchiveFilesIn(Join(root, d.name)) : d \in {g \in Entries(root) : g.dir}}

\* The locations of the repositories of a pool.
Locations(reps) == {reps[x].path : x \in DOMAIN reps}

\* The path p as seen from root.
RelTo(root, p) == TrimPrefix(TrimPrefix(p, root), "/")

\* C14: AddSivaDir(path) on an empty pool registers, as siva repositories,
\* exactly the regular files with the suffix ".siva" directly in path or
\* directly in a subdirectory of path.
C14_ExactlyArchiveFiles ==
  [][(/\ lastOp'.op = "AddSivaDir"
      /\ lastOp' # lastOp
      /\ idOrder = <<>>)
     => /\ Locations(repositories') = ExpectedArchives(lastOp'.path)
        /\ \A x \in DOMAIN repositories' : repositories'[x].kind = "siva"]_vars

\* C15 (as stated): every repository that AddSivaDir(root) registers has
\* the file's path relative to root as its id and the file's path as its
\* location.
C15_AsStated ==
  [][(/\ lastOp'.op = "AddSivaDir"
      /\ lastOp' # lastOp)
     => \A x \in DOMAIN repositories' \ DOMAIN repositories :
          /\ x = RelTo(lastOp'.path, repositories'[x].path)
          /\ HasPrefix(repositories'[x].path, Join(lastOp'.path, ""))]_vars

\* C15 (amended): every repository that AddSivaDir(root) registers is a siva
\* repository whose id is its location: the path of the entry, root
\* included.
C15_IdIsLocation ==
  [][(/\ lastOp'.op = "AddSivaDir"
      /\ lastOp' # lastOp)
     => \A x \in DOMAIN repositories' \ DOMAIN repositories :
          /\ repositories'[x] = sivaRepo(x, x)
          /\ HasPrefix(x, Join(lastOp'.path, ""))
          /\ RelTo(lastOp'.path, x) # x]_vars

\* AddSivaDir("/siva") has registered the file at the top and the file one
\* level down.
C15_Witness ==
  /\ lastOp.op = "AddSivaDir" /\ lastOp.path = "/siva"
  /\ {"/siva/r1.siva", "/siva/sub/r2.siva"} \subseteq DOMAIN repositories
  /\ repositories["/siva/sub/r2.siva"].path = "/siva/sub/r2.siva"

\* C16: an import of a directory that can be read returns no error, and
\* after it every entry that can be registered is in the pool: for AddDir
\* the subdirectories that open, for AddSivaDir the archive files.
C16_BatchNeverAborts ==
  [][(/\ lastOp'.op \in {"AddDir", "AddSivaDir"}
      /\ lastOp' # lastOp
      /\ Readable(lastOp'.path))
     => /\ lastOp'.res = OkRes
        /\ lastOp'.op = "AddDir" =>
             \A f \in {g \in Entries(lastOp'.path) : g.dir} :
               Opens(Join(lastOp'.path, f.name)) =>
                 IDFromPath(lastOp'.pos, Join(lastOp'.path, f.name))
                   \in DOMAIN repositories'
        /\ lastOp'.op = "AddSivaDir" =>
             ExpectedArchives(lastOp'.path) \subseteq DOMAIN repositories']_vars

\* --------------------------------------------------------------------- C17
\* What the claim expects of the Next call of a RepositoryIter that follows
\* k returned calls: the repository registered at position k, then io.EOF.
ExpectedOfCall(k) ==
  IF k < Len(regLog)
    THEN NewRepositoryFromPath(regLog[k + 1].id, regLog[k + 1].path)
    ELSE EOFRes

\* C17 (as stated): a RepositoryIter starts at position 0, and whatever the
\* other iterators over the pool do, its calls of Next return the
\* repositories in registration order, all of them, and then io.EOF.
C17_AsStated ==
  \A c \in Cursors :
    /\ cursorPc[c] # "none" => cursorPos[c] = cursorCalls[c]
    /\ cursorPc[c] = "got" => cursorRes[c] = ExpectedOfCall(cursorCalls[c])

\* C17 (amended): a RepositoryIter starts at position 0, and whatever the
\* other iterators over the pool do, its k-th call of Next returns what
\* GetPos(k-1) returns: the repository registered k-th when its id is not
\* empty, io.EOF when it is, and io.EOF past the end.
C17_Independent ==
  \A c \in Cursors :
    /\ cursorPc[c] # "none" => cursorPos[c] = cursorCalls[c]
    /\ cursorPc[c] = "got" =>
         cursorRes[c] =
           IF cursorCalls[c] < Len(regLog) /\ regLog[cursorCalls[c] + 1].id = ""
             THEN EOFRes
             ELSE ExpectedOfCall(cursorCalls[c])

\* c1 has gone through a pool of two repositories while c2 is fetching the
\* first one.
C17_Witness ==
  /\ Len(idOrder) = 2
  /\ cursorCalls["c1"] = 2
  /\ cursorPc["c2"] = "got" /\ cursorCalls["c2"] = 0
  /\ cursorRes["c2"].t = "repo" /\ cursorRes["c2"].id = regLog[1].id

\* --------------------------------------------------------------------- C18
\* C18: on an iterator that skips errors, without cancellation, every call
\* of Next returns.
C18_EveryNextReturns == (pc[Consumer] # "idle") ~> (pc[Consumer] = "idle")

\* --------------------------------------------------------------------- C19
\* C19: once a call of Next has returned io.EOF, every call that returns
\* after it returns io.EOF or ErrSessionCanceled.
C19_DoneAbsorbing ==
  \A i \in 1..Len(out) : \A j \in (i + 1)..Len(out) :
    out[i] = EOF => out[j] \in {EOF, ErrSessionCanceled}

\* --------------------------------------------------------------------- C20
\* C20: at most one sub-iterator is open, none is closed twice, none has
\* Next called after its Close, and when Close and every Next have returned
\* each sub-iterator made by NewIterator has been closed once.
C20_SubIteratorLifetime ==
  /\ Cardinality({i \in 1..Len(subs) : subs[i].closed = 0}) <= 1
  /\ \A i \in 1..Len(subs) : subs[i].closed <= 1
  /\ \A i \in 1..Len(subs) : ~subs[i].stale
  /\ (cpc = "done" /\ \A p \in Callers : pc[p] = "idle")
       => \A i \in 1..Len(subs) : subs[i].closed = 1

====
